---- MODULE Spec2Model ----
(***************************************************************************)
(* Model of the Windsurf gRPC client (src/src/plugin/grpc-client.ts):      *)
(* the push-mode call streamChat, the pull-mode call streamChatGenerator,  *)
(* the chunk decoder extractTextFromChunk and the HTTP/2 transport events  *)
(* that drive them.  Text is a sequence of one-character strings.          *)
(***************************************************************************)
EXTENDS Integers, Sequences, FiniteSets, TLC

VARIABLES
  mode,          \* "push" (streamChat) or "pull" (streamChatGenerator)
  creds,         \* which fields of the credential bundle are present
  modelKnown,    \* whether options.model is in the lookup table
  started,       \* the call has been made
  resolves,      \* modelNameToEnum calls
  encodes,       \* buildChatRequest calls
  connects,      \* http2.connect calls
  requests,      \* client.request calls
  writes,        \* req.write calls
  sess,          \* client session: "none", "connecting", "connected",
                 \* "failed" (error while connecting), "errored" (error later)
  req,           \* request stream: "none", "open", "trailed", "ended", "errored"
  closes,        \* client.close() calls
  timer,         \* setTimeout: "none", "armed", "fired"
  arrived,       \* raw chunks delivered by the transport, in arrival order
  chunks,        \* push: const chunks: string[]
  onChunkLog,    \* push: arguments of the options.onChunk calls, in order
  onCompleteLog, \* push: arguments of the options.onComplete calls, in order
  onErrorLog,    \* push: arguments of the options.onError calls, in order
  result,        \* outcome of the call (promise / generator exhaustion)
  chunkQueue,    \* pull: const chunkQueue: string[]
  done,          \* pull: let done
  error,         \* pull: let error
  resolveWait,   \* pull: resolveWait is non-null
  cstate,        \* pull: position of the generator / its consumer
  yielded,       \* pull: fragments yielded to the consumer, in order
  trailer,       \* the trailers the transport has delivered, if any
  events,        \* the events the transport and the timer have delivered, in order
  fn,            \* "call", or the name of the pure function under study
  arg,           \* the argument the pure function is applied to
  ret            \* <<>>, or <<v>> once the function has returned v

vars == <<mode, creds, modelKnown, started, resolves, encodes, connects,
          requests, writes, sess, req, closes, timer, arrived, chunks,
          onChunkLog, onCompleteLog, onErrorLog, result, chunkQueue, done,
          error, resolveWait, cstate, yielded, trailer, events, fn, arg, ret>>

(***************************************************************************)
(* Bounds of the model.                                                    *)
(***************************************************************************)
MaxChunks == 2

(***************************************************************************)
(* Characters.  "\t" stands for any byte outside \x20-\x7E and \n.         *)
(***************************************************************************)
Alphabet == {"H", "i", "a", "b", "0", "1", "*", "-", " ", "\n", "\t"}
WsChars == {" ", "\n", "\t"}
DigitChars == {"0", "1"}
HexOrHyphenChars == {"0", "1", "a", "b", "-"}
IsWs(c) == c \in WsChars

\* .replace(/[^\x20-\x7E\n]/g, ' ')
Sanitize(s) == [i \in 1..Len(s) |-> IF s[i] = "\t" THEN " " ELSE s[i]]

RECURSIVE TrimLeft(_)
TrimLeft(s) == IF s # <<>> /\ IsWs(Head(s)) THEN TrimLeft(Tail(s)) ELSE s

RECURSIVE TrimRight(_)
TrimRight(s) ==
  IF s # <<>> /\ IsWs(s[Len(s)]) THEN TrimRight(SubSeq(s, 1, Len(s) - 1)) ELSE s

\* String.prototype.trim
Trim(s) == TrimRight(TrimLeft(s))

\* length of the longest run of characters of the class cls in s from position i
RECURSIVE RunLen(_, _, _)
RunLen(s, i, cls) == IF i <= Len(s) /\ s[i] \in cls THEN 1 + RunLen(s, i + 1, cls) ELSE 0

\* readable.match(/\*\s*([^0]+)/) tried at the asterisk at position i:
\* the captured group, or "nomatch"
MatchAt(s, i) ==
  LET j == i + 1
      k == j + RunLen(s, j, WsChars)
  IN  IF k <= Len(s) /\ s[k] # "0"
        THEN [ok |-> TRUE, group |-> SubSeq(s, k, k + RunLen(s, k, Alphabet \ {"0"}) - 1)]
      ELSE IF k > j
        THEN [ok |-> TRUE, group |-> SubSeq(s, k - 1, k - 1)]
      ELSE [ok |-> FALSE, group |-> <<>>]

\* the leftmost match of /\*\s*([^0]+)/ in s
MarkerMatch(s) ==
  LET hits == {i \in 1..Len(s) : s[i] = "*" /\ MatchAt(s, i).ok}
  IN  IF hits = {} THEN [ok |-> FALSE, group |-> <<>>]
      ELSE MatchAt(s, CHOOSE i \in hits : \A h \in hits : i <= h)

\* readable.split(/\s{2,}/)
RECURSIVE SplitWs2(_, _)
SplitWs2(s, cur) ==
  IF s = <<>> THEN <<cur>>
  ELSE LET w == RunLen(s, 1, WsChars)
       IN  IF w >= 2 THEN <<cur>> \o SplitWs2(SubSeq(s, w + 1, Len(s)), <<>>)
           ELSE SplitWs2(Tail(s), Append(cur, Head(s)))

\* the part trimmed, its leading digits kept
Cleaned_Keeps(part) == Trim(part)

\* part.replace(/^[\s\d*]+/, '').trim()
Cleaned(part) == Trim(SubSeq(part, RunLen(part, 1, WsChars \cup DigitChars \cup {"*"}) + 1, Len(part)))

\* the condition of the if inside the fallback loop
Qualifies(part) ==
  /\ Len(part) > 0
  /\ \A i \in 1..Len(part) : part[i] # "-"
  /\ ~(\A i \in 1..Len(part) : part[i] \in HexOrHyphenChars)

RECURSIVE FirstCleaned(_)
FirstCleaned(parts) ==
  IF parts = <<>> THEN <<>>
  ELSE IF Qualifies(Head(parts)) /\ Cleaned(Head(parts)) # <<>>
    THEN Cleaned(Head(parts))
  ELSE FirstCleaned(Tail(parts))

extractTextFromChunk(chunk) ==
  LET readable == Trim(Sanitize(chunk))
      textMatch == MarkerMatch(readable)
  IN  IF textMatch.ok THEN Trim(textMatch.group)
      ELSE FirstCleaned(SplitWs2(readable, <<>>))

(***************************************************************************)
(* The request encoder (manual protobuf).  A byte array is a sequence of   *)
(* integers, a string is the sequence of its UTF-16 code units, and a      *)
(* BigInt is a record [hi, lo] standing for hi * 2^28 + lo, lo < 2^28.     *)
(***************************************************************************)
Lo28 == 2^28

\* BigInt(value) of a small number
BigInt(n) == [hi |-> n \div Lo28, lo |-> n % Lo28]

\* v >>= 7n
Shr7(v) == [hi |-> v.hi \div 128, lo |-> (v.lo \div 128) + (v.hi % 128) * 2^21]

\* encodeVarint on 32-bit numbers (value & 0x7f, value >>>= 7)
RECURSIVE encodeVarint_Int32(_)
encodeVarint_Int32(v) ==
  LET w == [hi |-> v.hi % 16, lo |-> v.lo]
  IN  IF w.hi > 0 \/ w.lo > 127
        THEN <<(w.lo % 128) + 128>> \o encodeVarint_Int32(Shr7(w))
        ELSE <<w.lo>>

RECURSIVE encodeVarint(_)
encodeVarint(v) ==
  IF v.hi > 0 \/ v.lo > 127
    THEN <<(v.lo % 128) + 128>> \o encodeVarint(Shr7(v))
    ELSE <<v.lo>>

\* Buffer.from(str, 'utf8'), code unit i: a surrogate pair is one 4-byte
\* sequence (emitted at its first half), a lone surrogate is replaced by U+FFFD
Utf8At(str, i) ==
  LET c == str[i]
      high(x) == x \in 55296..56319
      low(x) == x \in 56320..57343
  IN  IF c < 128 THEN <<c>>
      ELSE IF c < 2048 THEN <<192 + (c \div 64), 128 + (c % 64)>>
      ELSE IF high(c) /\ i < Len(str) /\ low(str[i + 1]) THEN
        LET cp == 65536 + (c - 55296) * 1024 + (str[i + 1] - 56320)
        IN  <<240 + (cp \div 262144), 128 + ((cp \div 4096) % 64),
              128 + ((cp \div 64) % 64), 128 + (cp % 64)>>
      ELSE IF low(c) /\ i > 1 /\ high(str[i - 1]) THEN <<>>
      ELSE IF high(c) \/ low(c) THEN <<239, 191, 189>>
      ELSE <<224 + (c \div 4096), 128 + ((c \div 64) % 64), 128 + (c % 64)>>

\* the bytes of code units from..to, in order
RECURSIVE Utf8Range(_, _, _)
Utf8Range(str, from, to) ==
  IF from > to THEN <<>>
  ELSE IF from = to THEN Utf8At(str, from)
  ELSE LET mid == (from + to) \div 2
       IN  Utf8Range(str, from, mid) \o Utf8Range(str, mid + 1, to)

Utf8(str) == Utf8Range(str, 1, Len(str))

\* (fieldNum << 3) | wireType, for wireType < 8
Tag(fieldNum, wireType) == fieldNum * 8 + wireType

\* encodeString declaring str.length
encodeString_CharCount(fieldNum, str) ==
  <<Tag(fieldNum, 2)>> \o encodeVarint(BigInt(Len(str))) \o Utf8(str)

encodeString(fieldNum, str) ==
  LET strBytes == Utf8(str)
  IN  <<Tag(fieldNum, 2)>> \o encodeVarint(BigInt(Len(strBytes))) \o strBytes

encodeMessage(fieldNum, data) ==
  <<Tag(fieldNum, 2)>> \o encodeVarint(BigInt(Len(data))) \o data

encodeVarintField(fieldNum, value) ==
  <<Tag(fieldNum, 0)>> \o encodeVarint(value)

\* Buffer.from(array): every element is taken modulo 256
BufferFrom(array) == [i \in 1..Len(array) |-> array[i] % 256]

\* buf.writeUInt32BE(n, 1)
UInt32BE(n) == <<(n \div 2^24) % 256, (n \div 65536) % 256, (n \div 256) % 256, n % 256>>

\* the frame with a little-endian length
grpcFrame_LE(payload) ==
  LET n == Len(payload)
  IN  <<0, n % 256, (n \div 256) % 256, (n \div 65536) % 256, (n \div 2^24) % 256>>
        \o payload

\* the 5-byte gRPC frame header followed by the payload
grpcFrame(payload) == <<0>> \o UInt32BE(Len(payload)) \o payload

\* 'windsurf', 'windsurf-next' and 'en' as code units
StrWindsurf == <<119, 105, 110, 100, 115, 117, 114, 102>>
StrWindsurfNext == StrWindsurf \o <<45, 110, 101, 120, 116>>
StrEn == <<101, 110>>

\* requestId stands for BigInt(Date.now()), sessionId for crypto.randomUUID()
encodeMetadata(apiKey, version, requestId, sessionId) ==
  encodeString(1, StrWindsurfNext)
    \o encodeString(2, version)
    \o encodeString(3, apiKey)
    \o encodeString(4, StrEn)
    \o encodeString(7, version)
    \o encodeVarintField(9, requestId)
    \o encodeString(10, sessionId)
    \o encodeString(12, StrWindsurf)

encodeFormattedChatMessage(role, content, header, footer) ==
  encodeVarintField(1, BigInt(role))
    \o (IF header # <<>> THEN encodeString(2, header) ELSE <<>>)
    \o encodeString(3, content)
    \o (IF footer # <<>> THEN encodeString(4, footer) ELSE <<>>)

\* enum ChatMessageSource of ./types.js
ChatMessageSource == [USER |-> 1, SYSTEM |-> 2, ASSISTANT |-> 3, TOOL |-> 4]

roleToSource(role) ==
  CASE role = "user" -> ChatMessageSource.USER
    [] role = "assistant" -> ChatMessageSource.ASSISTANT
    [] role = "system" -> ChatMessageSource.SYSTEM
    [] role = "tool" -> ChatMessageSource.TOOL
    [] OTHER -> ChatMessageSource.USER

\* the loop emitting the system message as a chat entry as well
RECURSIVE ChatLoop_KeepsSystem(_, _, _)
ChatLoop_KeepsSystem(messages, request, systemPrompt) ==
  IF messages = <<>> THEN [request |-> request, systemPrompt |-> systemPrompt]
  ELSE LET msg == Head(messages) IN
    ChatLoop_KeepsSystem(Tail(messages),
                         request \o encodeMessage(2,
                           encodeFormattedChatMessage(roleToSource(msg.role),
                                                      msg.content, <<>>, <<>>)),
                         IF msg.role = "system" THEN msg.content ELSE systemPrompt)

\* the loop keeping the first system message it meets
RECURSIVE ChatLoop_FirstSystem(_, _, _)
ChatLoop_FirstSystem(messages, request, systemPrompt) ==
  IF messages = <<>> THEN [request |-> request, systemPrompt |-> systemPrompt]
  ELSE LET msg == Head(messages) IN
    IF msg.role = "system"
      THEN ChatLoop_FirstSystem(Tail(messages), request,
                                IF systemPrompt = <<>> THEN msg.content
                                ELSE systemPrompt)
      ELSE ChatLoop_FirstSystem(Tail(messages),
                                request \o encodeMessage(2,
                                  encodeFormattedChatMessage(roleToSource(msg.role),
                                                             msg.content, <<>>, <<>>)),
                                systemPrompt)

\* the loop putting each entry right after the metadata, before the entries
\* already emitted
RECURSIVE ChatLoop_Prepends(_, _, _)
ChatLoop_Prepends(messages, request, systemPrompt) ==
  IF messages = <<>> THEN [request |-> request, systemPrompt |-> systemPrompt]
  ELSE LET msg == Head(messages)
           rest == ChatLoop_Prepends(Tail(messages), request, systemPrompt)
       IN  IF msg.role = "system"
             THEN [request |-> rest.request,
                   systemPrompt |-> IF \E i \in 1..Len(Tail(messages)) :
                                         Tail(messages)[i].role = "system"
                                      THEN rest.systemPrompt ELSE msg.content]
             ELSE [request |-> rest.request \o encodeMessage(2,
                                 encodeFormattedChatMessage(roleToSource(msg.role),
                                                            msg.content, <<>>, <<>>)),
                   systemPrompt |-> rest.systemPrompt]

\* the for loop of buildChatRequest over the messages
RECURSIVE ChatLoop(_, _, _)
ChatLoop(messages, request, systemPrompt) ==
  IF messages = <<>> THEN [request |-> request, systemPrompt |-> systemPrompt]
  ELSE LET msg == Head(messages) IN
    IF msg.role = "system"
      THEN ChatLoop(Tail(messages), request, msg.content)
      ELSE ChatLoop(Tail(messages),
                    request \o encodeMessage(2,
                      encodeFormattedChatMessage(roleToSource(msg.role), msg.content,
                                                 <<>>, <<>>)),
                    systemPrompt)

\* the protobuf payload of buildChatRequest, before framing
ChatPayload(apiKey, version, modelEnum, messages, requestId, sessionId) ==
  LET metadata == encodeMetadata(apiKey, version, requestId, sessionId)
      loop == ChatLoop(messages, encodeMessage(1, metadata), <<>>)
      request == loop.request
                   \o (IF loop.systemPrompt # <<>>
                         THEN encodeString(3, loop.systemPrompt) ELSE <<>>)
                   \o encodeVarintField(4, BigInt(modelEnum))
  IN  BufferFrom(request)

buildChatRequest(apiKey, version, modelEnum, messages, requestId, sessionId) ==
  LET payload == ChatPayload(apiKey, version, modelEnum, messages, requestId, sessionId)
  IN  <<0>> \o UInt32BE(Len(payload)) \o payload

(***************************************************************************)
(* Inputs of a call and of the transport.                                  *)
(***************************************************************************)
CredFields == {"csrfToken", "port", "apiKey", "version"}

\* raw response chunks the transport may deliver
ChunkSet == { <<"H", "i">>, <<"\t", "*", " ", "a", "0", "b">>, <<"a", "-", "b">> }

\* values of the grpc-status trailer
StatusSet == {"0", "13"}

\* values of the grpc-message trailer (percent-encoded; <<>> when absent)
TrailerMsgs == { <<>>, <<"b", "o", "o", "m">>, <<"n", "o", "%20", "g", "o">> }

\* underlying transport errors
Causes == {"ECONNREFUSED", "ECONNRESET"}

\* decodeURIComponent, on well-formed percent-encoded input
decodeURIComponent(m) == [i \in 1..Len(m) |-> IF m[i] = "%20" THEN " " ELSE m[i]]

(***************************************************************************)
(* Error values.                                                           *)
(***************************************************************************)
NoErr == [name |-> "none", message |-> <<>>, code |-> "none", details |-> "none"]

\* new WindsurfError(message, code, details)
WindsurfError(message, code, details) ==
  [name |-> "WindsurfError", message |-> message, code |-> code, details |-> details]

\* the err object an http2 'error' event carries
TransportErr(c) == [name |-> "Error", message |-> <<c>>, code |-> "none", details |-> "none"]

\* the TypeError Buffer.from(undefined) / new URL(...) throws
TypeErr(what) == [name |-> "TypeError", message |-> <<what>>, code |-> "none", details |-> "none"]

\* modelNameToEnum on a name that is not in the table
ModelNotFound ==
  [name |-> "WindsurfError", message |-> <<"Unknown model">>, code |-> "MODEL_NOT_FOUND",
   details |-> "none"]

ConnectionFailedErr(c) == WindsurfError(<<"Connection failed", c>>, "CONNECTION_FAILED", c)

RequestFailedErr(c) == WindsurfError(<<"Request failed", c>>, "STREAM_ERROR", c)

\* TrailerErr without the percent-decoding of grpc-message
TrailerErr_Raw(status, msg) ==
  WindsurfError(<<"gRPC error", status, IF msg # <<>> THEN msg ELSE <<"Unknown error">> >>,
                "STREAM_ERROR", "none")

TrailerErr(status, msg) ==
  WindsurfError(<<"gRPC error", status,
                  IF msg # <<>> THEN decodeURIComponent(msg) ELSE <<"Unknown error">> >>,
                "STREAM_ERROR", "none")

(***************************************************************************)
(* Outcome of a call.                                                      *)
(***************************************************************************)
Pending == [st |-> "pending", val |-> <<>>, err |-> NoErr]
Resolved(text) == [st |-> "resolved", val |-> text, err |-> NoErr]
Rejected(e) == [st |-> "rejected", val |-> <<>>, err |-> e]

\* resolve / reject of a promise: only the first call settles it
Settle(cur, new) == IF cur.st = "pending" THEN new ELSE cur

\* chunks.join('')
RECURSIVE Join(_)
Join(ss) == IF ss = <<>> THEN <<>> ELSE Head(ss) \o Join(Tail(ss))

(***************************************************************************)
(* The synchronous head of a call: credentials are destructured, the model *)
(* name is resolved, the request is encoded, the connection is opened.     *)
(* Nothing checks the credential bundle: an absent apiKey or version makes *)
(* Buffer.from throw inside buildChatRequest, an absent port makes         *)
(* http2.connect throw on the URL, an absent csrfToken is sent as no       *)
(* header at all.                                                          *)
(***************************************************************************)
\* modelNameToEnum(options.model) returns
ModelResolves == modelKnown

\* buildChatRequest is reached
EncodeReached == ModelResolves

\* buildChatRequest(apiKey, version, modelEnum, messages) returns
EncodeReturns == EncodeReached /\ creds["apiKey"] /\ creds["version"]

\* http2.connect called ahead of the model lookup and the encoding
ConnectReached_Early == TRUE

\* http2.connect is reached
ConnectReached == EncodeReturns

\* http2.connect(`http://localhost:${port}`) returns a session
ConnectReturns == ConnectReached /\ creds["port"]

\* what the head of the call throws, NoErr when it throws nothing
HeadError ==
  IF ~ModelResolves THEN ModelNotFound
  ELSE IF ~EncodeReturns THEN TypeErr("Buffer.from")
  ELSE IF ~ConnectReturns THEN TypeErr("Invalid URL")
  ELSE NoErr

HeadCounts ==
  /\ resolves' = resolves + 1
  /\ encodes' = encodes + (IF EncodeReached THEN 1 ELSE 0)
  /\ connects' = connects + (IF ConnectReached THEN 1 ELSE 0)

(***************************************************************************)
(* Pull mode: the body of the generator between two suspensions.           *)
(***************************************************************************)
\* a handler that forgets resolveWait?.()
WakeState_Lost(cs, rw) == cs

\* resolveWait?.() : resolves the promise the generator awaits
WakeState(cs, rw) == IF rw /\ cs = "waiting" THEN "woken" ELSE cs

\* the loop awaiting whenever the stream is not done, before it looks at the
\* queue
GeneratorLoop_AwaitsFirst(rw) ==
  IF ~done THEN
    /\ resolveWait' = TRUE
    /\ cstate' = "waiting"
    /\ UNCHANGED <<yielded, chunkQueue, result>>
  ELSE IF chunkQueue # <<>> THEN
    /\ yielded' = Append(yielded, Head(chunkQueue))
    /\ chunkQueue' = Tail(chunkQueue)
    /\ cstate' = "yielded"
    /\ resolveWait' = rw
    /\ UNCHANGED result
  ELSE
    /\ cstate' = "finished"
    /\ result' = IF error # NoErr THEN Rejected(error) ELSE Resolved(<<>>)
    /\ resolveWait' = rw
    /\ UNCHANGED <<yielded, chunkQueue>>

\* the loop written as while (!done): what is still queued when the stream is
\* marked done is dropped
GeneratorLoop_StopsOnDone(rw) ==
  IF done THEN
    /\ cstate' = "finished"
    /\ result' = IF error # NoErr THEN Rejected(error) ELSE Resolved(<<>>)
    /\ resolveWait' = rw
    /\ UNCHANGED <<yielded, chunkQueue>>
  ELSE IF chunkQueue # <<>> THEN
    /\ yielded' = Append(yielded, Head(chunkQueue))
    /\ chunkQueue' = Tail(chunkQueue)
    /\ cstate' = "yielded"
    /\ resolveWait' = rw
    /\ UNCHANGED result
  ELSE
    /\ resolveWait' = TRUE
    /\ cstate' = "waiting"
    /\ UNCHANGED <<yielded, chunkQueue, result>>

\* the while loop, run from its head until the generator suspends or ends
\* (rw: whether resolveWait is non-null on entry)
GeneratorLoop(rw) ==
  IF chunkQueue # <<>> THEN
    /\ yielded' = Append(yielded, Head(chunkQueue))
    /\ chunkQueue' = Tail(chunkQueue)
    /\ cstate' = "yielded"
    /\ resolveWait' = rw
    /\ UNCHANGED result
  ELSE IF ~done THEN
    /\ resolveWait' = TRUE
    /\ cstate' = "waiting"
    /\ UNCHANGED <<yielded, chunkQueue, result>>
  ELSE
    /\ cstate' = "finished"
    /\ result' = IF error # NoErr THEN Rejected(error) ELSE Resolved(<<>>)
    /\ resolveWait' = rw
    /\ UNCHANGED <<yielded, chunkQueue>>

Init ==
  /\ mode \in {"push", "pull"}
  /\ creds \in [CredFields -> BOOLEAN]
  /\ modelKnown \in BOOLEAN
  /\ started = FALSE
  /\ resolves = 0 /\ encodes = 0 /\ connects = 0 /\ requests = 0 /\ writes = 0
  /\ sess = "none" /\ req = "none" /\ closes = 0 /\ timer = "none"
  /\ arrived = <<>> /\ trailer = <<>>
  /\ chunks = <<>> /\ onChunkLog = <<>> /\ onCompleteLog = <<>> /\ onErrorLog = <<>>
  /\ result = Pending
  /\ chunkQueue = <<>> /\ done = FALSE /\ error = NoErr /\ resolveWait = FALSE
  /\ cstate = "idle" /\ yielded = <<>>
  /\ events = <<>>
  /\ fn = "call" /\ arg = <<>> /\ ret = <<>>

pushVars == <<chunks, onChunkLog, onCompleteLog, onErrorLog>>
pullVars == <<chunkQueue, done, error, resolveWait, cstate, yielded>>
inputVars == <<mode, creds, modelKnown, fn, arg, ret>>
countVars == <<resolves, encodes, connects>>

\* streamChat up to the return of the promise
StartPush ==
  /\ mode = "push" /\ ~started
  /\ started' = TRUE
  /\ HeadCounts
  /\ IF HeadError # NoErr
       THEN /\ result' = Rejected(HeadError)
            /\ UNCHANGED <<sess, timer>>
       ELSE /\ sess' = "connecting"
            /\ timer' = "armed"
            /\ UNCHANGED result
  /\ UNCHANGED <<inputVars, events, requests, writes, req, closes, arrived, trailer,
                 pushVars, pullVars>>

\* the first next() on streamChatGenerator, up to the first suspension
StartPull ==
  /\ mode = "pull" /\ ~started
  /\ started' = TRUE
  /\ HeadCounts
  /\ IF HeadError # NoErr
       THEN /\ result' = Rejected(HeadError)
            /\ cstate' = "finished"
            /\ UNCHANGED <<sess, req, requests, writes, resolveWait, yielded, chunkQueue>>
       ELSE /\ sess' = "connecting"
            /\ requests' = requests + 1
            /\ req' = "open"
            /\ writes' = writes + 1
            /\ GeneratorLoop(resolveWait)
  /\ UNCHANGED <<inputVars, events, closes, timer, arrived, trailer, pushVars, done, error>>

(***************************************************************************)
(* Transport events and their handlers.                                    *)
(***************************************************************************)
\* the request stream can still emit events
StreamActive == req \in {"open", "trailed"}

\* the session has emitted 'error'
SessionDown == sess \in {"failed", "errored"}

\* the session can still emit 'error': client.close() with no active stream
\* destroys it silently, unless the stream was itself destroyed by an error
SessionLive ==
  sess \in {"connecting", "connected"} /\ (closes = 0 \/ StreamActive \/ req = "errored")

\* client.on('connect'): push mode issues and writes the request here
Connect ==
  /\ sess = "connecting" /\ closes = 0
  /\ sess' = "connected"
  /\ IF mode = "push"
       THEN /\ requests' = requests + 1
            /\ req' = "open"
            /\ writes' = writes + 1
       ELSE UNCHANGED <<requests, req, writes>>
  /\ events' = Append(events, "connect")
  /\ UNCHANGED <<inputVars, started, countVars, closes, timer, arrived, trailer,
                 pushVars, result, pullVars>>

\* client.on('error') reconnecting instead of giving up
ClientError_Retry(c) ==
  /\ SessionLive
  /\ sess' = "connecting"
  /\ connects' = connects + 1
  /\ events' = Append(events, "clientError")
  /\ UNCHANGED <<inputVars, started, resolves, encodes, requests, writes, req, closes,
                 timer, arrived, trailer, pushVars, result, pullVars>>

\* client.on('error')
ClientError(c) ==
  /\ SessionLive
  /\ sess' = IF sess = "connecting" THEN "failed" ELSE "errored"
  /\ IF mode = "push"
       THEN /\ onErrorLog' = Append(onErrorLog, TransportErr(c))
            /\ result' = Settle(result, Rejected(ConnectionFailedErr(c)))
            /\ UNCHANGED <<chunks, onChunkLog, onCompleteLog, pullVars>>
       ELSE /\ error' = ConnectionFailedErr(c)
            /\ done' = TRUE
            /\ cstate' = WakeState(cstate, resolveWait)
            /\ UNCHANGED <<pushVars, result, chunkQueue, resolveWait, yielded>>
  /\ events' = Append(events, "clientError")
  /\ UNCHANGED <<inputVars, started, countVars, requests, writes, req, closes, timer,
                 arrived, trailer>>

\* req.on('data') putting the newest text in front
Data_Prepends(chunk) ==
  /\ sess = "connected" /\ req = "open"
  /\ Len(arrived) < MaxChunks
  /\ arrived' = Append(arrived, chunk)
  /\ LET text == extractTextFromChunk(chunk)
     IN  /\ chunks' = IF text # <<>> THEN <<text>> \o chunks ELSE chunks
         /\ onChunkLog' = IF text # <<>> THEN <<text>> \o onChunkLog ELSE onChunkLog
         /\ chunkQueue' = IF text # <<>> THEN <<text>> \o chunkQueue ELSE chunkQueue
         /\ cstate' = IF text # <<>> THEN WakeState(cstate, resolveWait) ELSE cstate
  /\ events' = Append(events, "data")
  /\ UNCHANGED <<inputVars, started, countVars, requests, writes, sess, req, closes,
                 timer, trailer, result, onCompleteLog, onErrorLog, done, error,
                 resolveWait, yielded>>

\* req.on('data')
Data(chunk) ==
  /\ sess = "connected" /\ req = "open"
  /\ Len(arrived) < MaxChunks
  /\ arrived' = Append(arrived, chunk)
  /\ LET text == extractTextFromChunk(chunk)
     IN  IF mode = "push"
           THEN /\ IF text # <<>>
                     THEN /\ chunks' = Append(chunks, text)
                          /\ onChunkLog' = Append(onChunkLog, text)
                     ELSE UNCHANGED <<chunks, onChunkLog>>
                /\ UNCHANGED <<onCompleteLog, onErrorLog, pullVars>>
           ELSE /\ IF text # <<>>
                     THEN /\ chunkQueue' = Append(chunkQueue, text)
                          /\ cstate' = WakeState(cstate, resolveWait)
                     ELSE UNCHANGED <<chunkQueue, cstate>>
                /\ UNCHANGED <<pushVars, done, error, resolveWait, yielded>>
  /\ events' = Append(events, "data")
  /\ UNCHANGED <<inputVars, started, countVars, requests, writes, sess, req, closes,
                 timer, trailer, result>>

\* req.on('trailers')
Trailers(status, msg) ==
  /\ sess = "connected" /\ req = "open"
  /\ req' = "trailed"
  /\ trailer' = <<[status |-> status, msg |-> msg]>>
  /\ IF status # "0"
       THEN IF mode = "push"
              THEN /\ onErrorLog' = Append(onErrorLog, TrailerErr(status, msg))
                   /\ result' = Settle(result, Rejected(TrailerErr(status, msg)))
                   /\ UNCHANGED <<chunks, onChunkLog, onCompleteLog, pullVars>>
              ELSE /\ error' = TrailerErr(status, msg)
                   /\ UNCHANGED <<pushVars, result, chunkQueue, done, resolveWait,
                                  cstate, yielded>>
       ELSE UNCHANGED <<pushVars, result, pullVars>>
  /\ events' = Append(events, "trailers")
  /\ UNCHANGED <<inputVars, started, countVars, requests, writes, sess, closes, timer,
                 arrived>>

\* req.on('end')
End ==
  /\ sess = "connected" /\ StreamActive
  /\ req' = "ended"
  /\ closes' = closes + 1
  /\ IF mode = "push"
       THEN /\ onCompleteLog' = Append(onCompleteLog, Join(chunks))
            /\ result' = Settle(result, Resolved(Join(chunks)))
            /\ UNCHANGED <<chunks, onChunkLog, onErrorLog, pullVars>>
       ELSE /\ done' = TRUE
            /\ cstate' = WakeState(cstate, resolveWait)
            /\ UNCHANGED <<pushVars, result, chunkQueue, error, resolveWait, yielded>>
  /\ events' = Append(events, "end")
  /\ UNCHANGED <<inputVars, started, countVars, requests, writes, sess, timer, arrived,
                 trailer>>

\* req.on('error')
ReqError(c) ==
  /\ \/ sess \in {"connecting", "connected"} /\ req = "open"
     \/ SessionDown /\ StreamActive
  /\ req' = "errored"
  /\ closes' = closes + 1
  /\ IF mode = "push"
       THEN /\ onErrorLog' = Append(onErrorLog, TransportErr(c))
            /\ result' = Settle(result, Rejected(RequestFailedErr(c)))
            /\ UNCHANGED <<chunks, onChunkLog, onCompleteLog, pullVars>>
       ELSE /\ error' = RequestFailedErr(c)
            /\ done' = TRUE
            /\ cstate' = WakeState(cstate, resolveWait)
            /\ UNCHANGED <<pushVars, result, chunkQueue, resolveWait, yielded>>
  /\ events' = Append(events, "reqError")
  /\ UNCHANGED <<inputVars, started, countVars, requests, writes, sess, timer, arrived,
                 trailer>>

\* the setTimeout callback rejecting the call instead of resolving it
Timeout_Rejects ==
  /\ timer = "armed"
  /\ timer' = "fired"
  /\ closes' = closes + 1
  /\ onErrorLog' = Append(onErrorLog, TransportErr("ETIMEDOUT"))
  /\ result' = Settle(result, Rejected(RequestFailedErr("ETIMEDOUT")))
  /\ events' = Append(events, "timeout")
  /\ UNCHANGED <<inputVars, started, countVars, requests, writes, sess, req, arrived,
                 trailer, chunks, onChunkLog, onCompleteLog, pullVars>>

\* the setTimeout callback of streamChat
Timeout ==
  /\ timer = "armed"
  /\ timer' = "fired"
  /\ closes' = closes + 1
  /\ onCompleteLog' = Append(onCompleteLog, Join(chunks))
  /\ result' = Settle(result, Resolved(Join(chunks)))
  /\ events' = Append(events, "timeout")
  /\ UNCHANGED <<inputVars, started, countVars, requests, writes, sess, req, arrived,
                 trailer, chunks, onChunkLog, onErrorLog, pullVars>>

(***************************************************************************)
(* The consumer of the pull-mode sequence.                                 *)
(***************************************************************************)
\* the continuation of the await: resolveWait = null, then the loop
ConsumerContinue ==
  /\ cstate = "woken"
  /\ GeneratorLoop(FALSE)
  /\ UNCHANGED <<inputVars, events, started, countVars, requests, writes, sess, req, closes,
                 timer, arrived, trailer, pushVars, done, error>>

\* the consumer asks for the next fragment: the generator resumes after its yield
ConsumerNext ==
  /\ cstate = "yielded"
  /\ GeneratorLoop(resolveWait)
  /\ UNCHANGED <<inputVars, events, started, countVars, requests, writes, sess, req, closes,
                 timer, arrived, trailer, pushVars, done, error>>

\* the consumer stops iterating: return() on a generator suspended at its yield
ConsumerAbandon ==
  /\ cstate = "yielded"
  /\ cstate' = "abandoned"
  /\ UNCHANGED <<inputVars, events, started, countVars, requests, writes, sess, req, closes,
                 timer, arrived, trailer, pushVars, result, chunkQueue, done, error,
                 resolveWait, yielded>>

Next ==
  \/ StartPush
  \/ StartPull
  \/ Connect
  \/ \E c \in Causes : ClientError(c)
  \/ \E chunk \in ChunkSet : Data(chunk)
  \/ \E status \in StatusSet, msg \in TrailerMsgs : Trailers(status, msg)
  \/ End
  \/ \E c \in Causes : ReqError(c)
  \/ Timeout
  \/ ConsumerContinue
  \/ ConsumerNext
  \/ ConsumerAbandon

Spec == Init /\ [][Next]_vars

\* timers fire and the continuation of a resolved await runs; the transport
\* and the consumer owe nothing
LiveSpec == Spec /\ WF_vars(Timeout) /\ WF_vars(ConsumerContinue)

(***************************************************************************)
(* The pure functions of the encoder, each applied once to an input drawn  *)
(* from a bounded set.                                                     *)
(***************************************************************************)
MaxVarint == 300
MaxStrLen == 2
MaxRepeat == 130
MaxPayload == 300
MaxMsgs == 3
MaxChunkLen == 5

SeqsUpTo(S, n) == UNION { [1..k -> S] : k \in 0..n }
Repeat(x, n) == [i \in 1..n |-> x]

\* 2^32 - 1 and 2^53 - 1
TwoTo32Less1 == [hi |-> 15, lo |-> Lo28 - 1]
TwoTo53Less1 == [hi |-> 2^25 - 1, lo |-> Lo28 - 1]

VarintInputs == { BigInt(n) : n \in 0..MaxVarint } \cup {TwoTo32Less1, TwoTo53Less1}

\* 'A', e-acute, the euro sign, and the two halves of a surrogate pair
CodeUnits == {65, 233, 8364, 55357, 56832}

StringInputs ==
  SeqsUpTo(CodeUnits, MaxStrLen)
    \cup { Repeat(c, n) : c \in {65, 233}, n \in 0..MaxRepeat }

\* the field numbers the encoder uses for length-delimited fields
LenFieldNums == {1, 2, 3, 4, 7, 10, 12}

DataInputs ==
  { Repeat(b, n) : b \in {0, 255}, n \in 0..MaxRepeat }
    \cup { encodeString(f, s) : f \in {1, 12}, s \in SeqsUpTo(CodeUnits, 1) }

PayloadInputs ==
  { [i \in 1..n |-> (i * k) % 256] : k \in {0, 7}, n \in 0..MaxPayload }

ChatMessages ==
  { [role |-> "system", content |-> c] : c \in {<<>>, <<83>>, <<84, 233>>} }
    \cup { [role |-> "user", content |-> c] : c \in {<<>>, <<85>>} }
    \cup { [role |-> "assistant", content |-> <<65>>],
           [role |-> "tool", content |-> <<82>>],
           [role |-> "function", content |-> <<85>>] }

SessionId == [i \in 1..36 |-> IF i \in {9, 14, 19, 24} THEN 45 ELSE 97 + (i % 6)]

BuildInputs ==
  { [apiKey |-> <<107, 101, 121>>, version |-> <<49, 46, 48>>, modelEnum |-> e,
     messages |-> ms, requestId |-> [hi |-> 6400, lo |-> 12345],
     sessionId |-> SessionId] :
    e \in {1, 200}, ms \in SeqsUpTo(ChatMessages, MaxMsgs) }

\* the characters of the chunks the decoder is applied to
ChunkChars == {"H", "a", "0", "*", "-", " ", "\t"}

ChunkInputs == SeqsUpTo(ChunkChars, MaxChunkLen)

\* field numbers with a tag below 128, of 128 and above, and above 255
TagFieldNums == {1, 4, 9, 15, 16, 32}

VarintFieldInputs == TagFieldNums \X { BigInt(n) : n \in {0, 1, 127, 128, 300} }

callVars == <<mode, creds, modelKnown, started, resolves, encodes, connects,
              requests, writes, sess, req, closes, timer, arrived, chunks,
              onChunkLog, onCompleteLog, onErrorLog, result, chunkQueue, done,
              error, resolveWait, cstate, yielded, trailer, events>>

FnInit ==
  /\ mode = "push" /\ creds = CredFields /\ modelKnown = TRUE
  /\ started = FALSE
  /\ resolves = 0 /\ encodes = 0 /\ connects = 0 /\ requests = 0 /\ writes = 0
  /\ sess = "none" /\ req = "none" /\ closes = 0 /\ timer = "none"
  /\ arrived = <<>> /\ trailer = <<>>
  /\ chunks = <<>> /\ onChunkLog = <<>> /\ onCompleteLog = <<>> /\ onErrorLog = <<>>
  /\ result = Pending
  /\ chunkQueue = <<>> /\ done = FALSE /\ error = NoErr /\ resolveWait = FALSE
  /\ cstate = "idle" /\ yielded = <<>>
  /\ events = <<>>
  /\ ret = <<>>
  /\ \/ fn = "encodeVarint" /\ arg \in VarintInputs
     \/ fn = "encodeString" /\ arg \in (LenFieldNums \X StringInputs)
     \/ fn = "encodeMessage" /\ arg \in (LenFieldNums \X DataInputs)
     \/ fn = "grpcFrame" /\ arg \in PayloadInputs
     \/ fn = "buildChatRequest" /\ arg \in BuildInputs
     \/ fn = "extractTextFromChunk" /\ arg \in ChunkInputs
     \/ fn = "encodeVarintField" /\ arg \in VarintFieldInputs

Returns(f, v) ==
  /\ fn = f /\ ret = <<>>
  /\ ret' = <<v>>
  /\ UNCHANGED <<callVars, fn, arg>>

ApplyEncodeVarint == fn = "encodeVarint" /\ Returns("encodeVarint", encodeVarint(arg))

ApplyEncodeString ==
  fn = "encodeString" /\ Returns("encodeString", encodeString(arg[1], arg[2]))

ApplyEncodeMessage ==
  fn = "encodeMessage" /\ Returns("encodeMessage", encodeMessage(arg[1], arg[2]))

ApplyGrpcFrame == fn = "grpcFrame" /\ Returns("grpcFrame", grpcFrame(arg))

ApplyBuildChatRequest ==
  fn = "buildChatRequest"
    /\ Returns("buildChatRequest",
               buildChatRequest(arg.apiKey, arg.version, arg.modelEnum, arg.messages,
                                arg.requestId, arg.sessionId))

ApplyExtractTextFromChunk ==
  fn = "extractTextFromChunk"
    /\ Returns("extractTextFromChunk", extractTextFromChunk(arg))

ApplyEncodeVarintField ==
  fn = "encodeVarintField"
    /\ Returns("encodeVarintField", encodeVarintField(arg[1], arg[2]))

FnNext ==
  \/ ApplyEncodeVarint
  \/ ApplyEncodeString
  \/ ApplyEncodeMessage
  \/ ApplyGrpcFrame
  \/ ApplyBuildChatRequest
  \/ ApplyExtractTextFromChunk
  \/ ApplyEncodeVarintField

FnSpec == FnInit /\ [][FnNext]_vars

(***************************************************************************)
(* Properties.                                                             *)
(***************************************************************************)
\* the non-empty decoded texts of a sequence of raw chunks, in order
RECURSIVE TextsOf(_)
TextsOf(raw) ==
  IF raw = <<>> THEN <<>>
  ELSE LET t == extractTextFromChunk(Head(raw))
       IN  (IF t # <<>> THEN <<t>> ELSE <<>>) \o TextsOf(Tail(raw))

\* the stream ended normally after a trailer with status 0
EndedOk == req = "ended" /\ trailer # <<>> /\ trailer[1].status = "0"

\* C1: in push mode, once the stream has ended normally with trailer status 0,
\* the call is resolved with the in-order concatenation of the decoded texts of
\* all chunks and onComplete has fired exactly once, with that string.
C1_EndResolvesOnce ==
  (mode = "push" /\ EndedOk) =>
    /\ result.st = "resolved"
    /\ result.val = Join(TextsOf(arrived))
    /\ onCompleteLog = <<Join(TextsOf(arrived))>>

\* C2: in push mode at most one terminal callback is ever invoked, at most
\* once: onComplete and onError together fire once per call, never both.
C2_OneTerminalCallback ==
  mode = "push" => Len(onCompleteLog) + Len(onErrorLog) <= 1

\* a trailer with a non-zero status has been delivered
TrailerFailed == trailer # <<>> /\ trailer[1].status # "0"

\* the message of the StreamError for the delivered trailer
TrailerMessage(t) ==
  <<"gRPC error", t.status,
    IF t.msg = <<>> THEN <<"Unknown error">> ELSE decodeURIComponent(t.msg)>>

\* C3 (as stated): in push mode, once a trailer with a non-zero status has been
\* delivered the call is failed with a StreamError carrying the status and the
\* percent-decoded message, and every chunk that arrived before the trailer
\* went through onChunk.
C3_TrailerAlwaysFails ==
  (mode = "push" /\ TrailerFailed) =>
    /\ result.st = "rejected"
    /\ result.err.code = "STREAM_ERROR"
    /\ result.err.message = TrailerMessage(trailer[1])
    /\ onChunkLog = TextsOf(arrived)

\* C3 (amended): in push mode a trailer with a non-zero status that arrives
\* before the timeout has expired fails the call with a StreamError carrying
\* the status and the percent-decoded message, every chunk that arrived before
\* it has gone through onChunk, and a failed call never becomes a success.
C3_TrailerFailsBeforeTimeout ==
  [][ /\ (mode = "push" /\ timer = "armed" /\ trailer = <<>> /\ TrailerFailed') =>
          /\ result'.st = "rejected"
          /\ result'.err.name = "WindsurfError"
          /\ result'.err.code = "STREAM_ERROR"
          /\ result'.err.message = TrailerMessage(trailer'[1])
          /\ onChunkLog' = TextsOf(arrived')
      /\ (mode = "push" /\ result.st = "rejected") => result' = result ]_vars

\* C3 witness: a failing trailer with a percent-encoded message arrived after a
\* delivered chunk and before the timeout, and the call is rejected.
C3_Witness ==
  /\ mode = "push" /\ timer = "armed" /\ TrailerFailed
  /\ trailer[1].msg = <<"n", "o", "%20", "g", "o">>
  /\ onChunkLog # <<>>
  /\ result.st = "rejected"

\* C4: in push mode, when the timeout expires while the call is still pending
\* (no end, no error, no failing trailer so far), the connection is closed and
\* the call resolves with exactly the text accumulated so far; the expiry
\* rejects nothing and calls no error callback, and the success stays.
C4_TimeoutResolves ==
  [][ /\ (mode = "push" /\ timer = "armed" /\ timer' = "fired" /\ result.st = "pending") =>
          /\ result'.st = "resolved"
          /\ result'.val = Join(TextsOf(arrived))
          /\ result'.err = NoErr
          /\ closes' = closes + 1
          /\ onErrorLog' = onErrorLog
      /\ (mode = "push" /\ result.st = "resolved") => result' = result ]_vars

\* C4 witness: the timer fired on an open stream that had delivered text, and
\* the call is resolved with that text.
C4_Witness ==
  /\ mode = "push" /\ timer = "fired" /\ req = "open" /\ closes = 1
  /\ result.st = "resolved" /\ result.val # <<>>
  /\ onErrorLog = <<>>

\* C5: a close of an already closed connection has no observable effect: the
\* step that closes it again invokes no callback and leaves the result as is.
C5_SecondCloseSilent ==
  [][ (closes >= 1 /\ closes' = closes + 1) =>
        /\ onChunkLog' = onChunkLog
        /\ onCompleteLog' = onCompleteLog
        /\ onErrorLog' = onErrorLog
        /\ result' = result ]_vars

\* the transport has delivered a trailer, the end of the stream or an error
TransportTerminated == req \in {"trailed", "ended", "errored"} \/ SessionDown

\* C6: every started call eventually produces its result even when the
\* transport delivers no trailer, no end and no error: the timeout expires and
\* the call completes; a pull-mode call does not stay suspended for ever (it
\* finishes, unless the consumer holds a fragment or has abandoned it).
C6_EventuallyResult ==
  started ~> \/ result.st # "pending"
             \/ cstate \in {"yielded", "abandoned"}
             \/ TransportTerminated

\* the connection was never opened, was closed, or was torn down by its error
Released == sess = "none" \/ closes > 0 \/ SessionDown

\* the call is over for its caller (a failing trailer is followed by the end)
Exited ==
  \/ mode = "push" /\ result.st # "pending" /\ req # "trailed"
  \/ mode = "pull" /\ cstate \in {"finished", "abandoned"}

\* C7: on every exit path of a call the connection is released.
C7_ReleasedOnExit == Exited => Released

\* C8: when the connection failed while it was being set up, a finished call
\* has failed with ConnectionFailed carrying the cause, and no chunk was
\* delivered to the caller.
C8_ConnectionFailed ==
  (sess = "failed" /\ result.st # "pending") =>
    /\ result.st = "rejected"
    /\ result.err.code = "CONNECTION_FAILED"
    /\ result.err.details \in Causes
    /\ onChunkLog = <<>>
    /\ yielded = <<>>

C10_MissingCredentialFirst ==
  (started /\ \E f \in CredFields : ~creds[f]) =>
    /\ result.st = "rejected"
    /\ result.err.code = "MISSING_CREDENTIAL"
    /\ encodes = 0 /\ connects = 0

\* an error event or a failing trailer has been delivered
ErrorOccurred == TrailerFailed \/ req = "errored" \/ SessionDown

\* C11: in pull mode every decoded fragment is yielded exactly once in arrival
\* order (what was yielded followed by what is queued is what arrived), and a
\* generator run to exhaustion has yielded everything and then raised the
\* error if one occurred and ended cleanly otherwise.
C11_NothingLost ==
  (mode = "pull" /\ sess # "none") =>
    /\ yielded \o chunkQueue = TextsOf(arrived)
    /\ cstate = "finished" =>
         /\ yielded = TextsOf(arrived)
         /\ result.st = (IF ErrorOccurred THEN "rejected" ELSE "resolved")

\* C11 witness: a generator run to exhaustion yielded fragments and then raised
\* the recorded error.
C11_Witness ==
  /\ mode = "pull" /\ cstate = "finished"
  /\ yielded # <<>> /\ yielded = TextsOf(arrived)
  /\ result.st = "rejected"

\* the first event of the log that ends a call
RECURSIVE FirstTerminal(_)
FirstTerminal(es) ==
  IF es = <<>> THEN "none"
  ELSE IF Head(es) \in {"end", "reqError", "clientError", "timeout"} THEN Head(es)
  ELSE IF Head(es) = "trailers" /\ TrailerFailed THEN "trailers"
  ELSE FirstTerminal(Tail(es))

\* C12: a call whose first terminal event is a request error has, once it is
\* over, failed with StreamError carrying the underlying cause, in push mode
\* and in pull mode.
C12_ReqErrorFails ==
  (FirstTerminal(events) = "reqError" /\ result.st # "pending") =>
    /\ result.st = "rejected"
    /\ result.err.code = "STREAM_ERROR"
    /\ result.err.details \in Causes

\* C13: a call opens at most one connection, issues one request on it and
\* writes one frame, once; no event makes it connect, encode or write again.
C13_OneConnectionOneWrite ==
  /\ resolves <= 1 /\ encodes <= 1 /\ connects <= 1 /\ requests <= 1 /\ writes <= 1
  /\ writes = requests
  /\ sess # "none" => connects = 1
  /\ req # "none" => writes = 1

\* C13 witness: after a connection error, a request error and the timeout the
\* call has still connected once and written once.
C13_Witness ==
  /\ SessionDown /\ req = "errored" /\ timer = "fired"
  /\ connects = 1 /\ writes = 1

\* C14: in push mode onChunk is invoked in the step a chunk arrives, once, and
\* the invocations are the decoded texts of the arrived chunks in arrival
\* order (a chunk with no displayable text is not delivered).
C14_ChunkOrder ==
  [][ mode = "push" =>
        /\ onChunkLog' = TextsOf(arrived')
        /\ arrived' = arrived => onChunkLog' = onChunkLog ]_vars

\* C14 witness: two chunks with different texts arrived and went through
\* onChunk.
C14_Witness ==
  /\ mode = "push" /\ Len(arrived) = 2 /\ Len(onChunkLog) = 2
  /\ onChunkLog[1] # onChunkLog[2]

(***************************************************************************)
(* A reference protobuf reader, used to state the encoder's properties.    *)
(***************************************************************************)
\* index of the last byte of the varint that starts at i, 0 if it never ends
VarintEnd(bs, i) ==
  IF \E j \in i..Len(bs) : bs[j] < 128
    THEN CHOOSE j \in i..Len(bs) : bs[j] < 128 /\ \A k \in i..(j - 1) : bs[k] >= 128
    ELSE 0

\* v << 7
Shl7(v) == [hi |-> v.hi * 128 + (v.lo \div 2^21), lo |-> (v.lo % 2^21) * 128]

\* little-endian base-128 value of bytes i..j
RECURSIVE DecodeFrom(_, _, _)
DecodeFrom(bs, i, j) ==
  IF i >= j THEN BigInt(bs[i] % 128)
  ELSE LET rest == Shl7(DecodeFrom(bs, i + 1, j))
       IN  [hi |-> rest.hi, lo |-> rest.lo + (bs[i] % 128)]

NotANumber == [hi |-> -1, lo |-> -1]

\* the standard decoder: the bytes are one whole varint
DecodeVarint(bs) ==
  IF bs # <<>> /\ VarintEnd(bs, 1) = Len(bs) THEN DecodeFrom(bs, 1, Len(bs))
  ELSE NotANumber

IsBytes(bs) == \A i \in 1..Len(bs) : bs[i] \in 0..255

\* C18: decoding encodeVarint(n) with the standard little-endian base-128
\* decoder returns n, for 0, 1, 127, 128, 2^32-1, 2^53-1 and every n up to
\* MaxVarint.
C18_VarintRoundTrip ==
  (fn = "encodeVarint" /\ ret # <<>>) =>
    /\ IsBytes(ret[1])
    /\ DecodeVarint(ret[1]) = arg

\* C18 witness: 2^53-1 was encoded, in 8 bytes.
C18_Witness ==
  /\ fn = "encodeVarint" /\ ret # <<>>
  /\ arg = TwoTo53Less1 /\ Len(ret[1]) = 8

\* UTF-8 byte count of a string, counted per code unit: 1 below U+0080, 2
\* below U+0800, 2 for each half of a surrogate pair, 3 otherwise
Utf8Count(str) ==
  LET idx == 1..Len(str)
      paired(i) == \/ /\ str[i] \in 55296..56319 /\ i < Len(str)
                      /\ str[i + 1] \in 56320..57343
                   \/ /\ str[i] \in 56320..57343 /\ i > 1
                      /\ str[i - 1] \in 55296..56319
      one == { i \in idx : str[i] < 128 }
      two == { i \in idx : str[i] \in 128..2047 \/ paired(i) }
  IN  Cardinality(one) + 2 * Cardinality(two) + 3 * Cardinality(idx \ (one \cup two))

\* a length-delimited field read back: its declared length and what follows
ReadLen(bs) ==
  LET e == VarintEnd(bs, 2)
  IN  [ok |-> e > 0,
       declared |-> IF e > 0 THEN DecodeFrom(bs, 2, e) ELSE NotANumber,
       payload |-> IF e > 0 THEN SubSeq(bs, e + 1, Len(bs)) ELSE <<>>]

BadField == [num |-> -1, wire |-> -1, int |-> NotANumber, bytes |-> <<>>]

\* the fields of a message from byte i on; BadField where the bytes stop
\* being a field (a tag or length that does not end, a length that runs past
\* the end, a wire type other than 0 and 2)
RECURSIVE ParseFields(_, _)
ParseFields(bs, i) ==
  IF i > Len(bs) THEN <<>>
  ELSE LET te == VarintEnd(bs, i) IN
    IF te = 0 THEN <<BadField>>
    ELSE LET tag == DecodeFrom(bs, i, te).lo
             ve == VarintEnd(bs, te + 1)
             n == IF ve = 0 THEN 0 ELSE DecodeFrom(bs, te + 1, ve).lo
         IN  IF ve = 0 THEN <<BadField>>
             ELSE IF tag % 8 = 0 THEN
               <<[num |-> tag \div 8, wire |-> 0,
                  int |-> DecodeFrom(bs, te + 1, ve), bytes |-> <<>>]>>
                 \o ParseFields(bs, ve + 1)
             ELSE IF tag % 8 = 2 /\ ve + n <= Len(bs) THEN
               <<[num |-> tag \div 8, wire |-> 2, int |-> BigInt(n),
                  bytes |-> SubSeq(bs, ve + 1, ve + n)]>>
                 \o ParseFields(bs, ve + n + 1)
             ELSE <<BadField>>

WellFormed(fields) == \A i \in 1..Len(fields) : fields[i] # BadField

\* the payload inside a frame
Unframe(frame) == SubSeq(frame, 6, Len(frame))

\* C19: for every length-delimited field the encoder produces, the declared
\* varint length equals the byte length of the payload that follows it: the
\* UTF-8 byte count for a string field, the data length for a nested message;
\* a built request and its nested messages read back field by field to exactly
\* their end.
C19_DeclaredLength ==
  ret # <<>> =>
    CASE fn = "encodeString" ->
           LET r == ReadLen(ret[1])
           IN  /\ r.ok
               /\ r.declared = BigInt(Len(r.payload))
               /\ Len(r.payload) = Utf8Count(arg[2])
      [] fn = "encodeMessage" ->
           LET r == ReadLen(ret[1])
           IN  /\ r.ok
               /\ r.declared = BigInt(Len(r.payload))
               /\ r.payload = arg[2]
      [] fn = "buildChatRequest" ->
           LET fields == ParseFields(Unframe(ret[1]), 1)
           IN  /\ WellFormed(fields)
               /\ \A i \in 1..Len(fields) :
                    fields[i].num \in {1, 2} =>
                      WellFormed(ParseFields(fields[i].bytes, 1))
      [] OTHER -> TRUE

\* C19 witness: a string of 130 two-byte characters was encoded; its declared
\* length is 260, not 130.
C19_Witness ==
  /\ fn = "encodeString" /\ ret # <<>>
  /\ Len(arg[2]) = 130 /\ arg[2][1] = 233
  /\ ReadLen(ret[1]).declared = BigInt(260)

\* C20: a frame is the byte 0, the payload length as 4 big-endian bytes and
\* the payload unchanged; it is 5 bytes longer than the payload.
C20_Frame ==
  (ret # <<>> /\ fn \in {"grpcFrame", "buildChatRequest"}) =>
    LET frame == ret[1]
        payload == IF fn = "grpcFrame" THEN arg
                   ELSE ChatPayload(arg.apiKey, arg.version, arg.modelEnum,
                                    arg.messages, arg.requestId, arg.sessionId)
    IN  /\ Len(frame) = Len(payload) + 5
        /\ frame[1] = 0
        /\ \A i \in 2..5 : frame[i] \in 0..255
        /\ frame[2] * 2^24 + frame[3] * 65536 + frame[4] * 256 + frame[5] = Len(payload)
        /\ Unframe(frame) = payload

\* C20 witness: a payload of 300 bytes was framed; the length bytes are
\* 0, 0, 1, 44.
C20_Witness ==
  /\ fn = "grpcFrame" /\ ret # <<>>
  /\ Len(arg) = 300 /\ arg[1] = 7
  /\ SubSeq(ret[1], 1, 5) = <<0, 0, 0, 1, 44>>

IsSystem(m) == m.role = "system"
IsNotSystem(m) == m.role # "system"
IsOverride(f) == f.num = 3 /\ f.wire = 2
IsEntry(f) == f.num = 2 /\ f.wire = 2

\* buildChatRequest has returned
Built == fn = "buildChatRequest" /\ ret # <<>>

\* the fields of the built request, in order
BuiltFields == ParseFields(Unframe(ret[1]), 1)

\* the contents of the system-prompt-override fields of the built request
BuiltOverrides ==
  LET fs == SelectSeq(BuiltFields, IsOverride)
  IN  [i \in 1..Len(fs) |-> fs[i].bytes]

\* the chat entries of the built request, each read back into its fields
BuiltEntries ==
  LET fs == SelectSeq(BuiltFields, IsEntry)
  IN  [i \in 1..Len(fs) |-> ParseFields(fs[i].bytes, 1)]

SystemMsgs == SelectSeq(arg.messages, IsSystem)
OtherMsgs == SelectSeq(arg.messages, IsNotSystem)

\* no chat entry has the source SYSTEM
NoSystemEntry ==
  \A i \in 1..Len(BuiltEntries) :
    \A j \in 1..Len(BuiltEntries[i]) :
      (BuiltEntries[i][j].num = 1 /\ BuiltEntries[i][j].wire = 0) =>
        BuiltEntries[i][j].int # BigInt(ChatMessageSource.SYSTEM)

SourceName(n) ==
  IF \E k \in DOMAIN ChatMessageSource : ChatMessageSource[k] = n
    THEN CHOOSE k \in DOMAIN ChatMessageSource : ChatMessageSource[k] = n
    ELSE "none"

\* the source a role stands for (a role outside the four is sent as USER)
RoleSource(role) ==
  CASE role = "assistant" -> "ASSISTANT"
    [] role = "tool" -> "TOOL"
    [] role = "system" -> "SYSTEM"
    [] OTHER -> "USER"

\* C17: the i-th chat entry of the request carries the role and the content of
\* the i-th non-system message: a role field, then a content field, nothing
\* else.
C17_EntriesInOrder ==
  Built =>
    /\ Len(BuiltEntries) = Len(OtherMsgs)
    /\ \A i \in 1..Len(BuiltEntries) :
         LET e == BuiltEntries[i]
         IN  /\ Len(e) = 2
             /\ e[1].num = 1 /\ e[1].wire = 0
             /\ e[1].int.hi = 0
             /\ SourceName(e[1].int.lo) = RoleSource(OtherMsgs[i].role)
             /\ e[2].num = 3 /\ e[2].wire = 2
             /\ e[2].bytes = Utf8(OtherMsgs[i].content)

\* C17 witness: an assistant message, a system message and a user message;
\* the request has two entries, the assistant's first.
C17_Witness ==
  /\ Built
  /\ arg.messages = <<[role |-> "assistant", content |-> <<65>>],
                      [role |-> "system", content |-> <<83>>],
                      [role |-> "user", content |-> <<85>>]>>
  /\ Len(BuiltEntries) = 2
  /\ BuiltEntries[1][2].bytes = <<65>> /\ BuiltEntries[2][2].bytes = <<85>>

\* the timeout has not expired
NoTimeout == \A i \in 1..Len(events) : events[i] # "timeout"

\* the event sequence can occur in both modes: the request of a push call
\* is issued on 'connect', so no request event precedes it
SharedSequence ==
  \A i \in 1..Len(events) :
    events[i] \in {"data", "trailers", "end", "reqError"} =>
      \E j \in 1..(i - 1) : events[j] = "connect"

\* what the caller received as chunks
Delivered == IF mode = "push" THEN onChunkLog ELSE yielded

\* how the call ended: "ok" or the kind of its error
OutcomeKind == IF result.st = "resolved" THEN "ok" ELSE result.err.code

\* how the event sequence ends a call, whatever the mode: its first terminal
\* event decides
LogKind ==
  CASE FirstTerminal(events) = "end" -> "ok"
    [] FirstTerminal(events) = "clientError" -> "CONNECTION_FAILED"
    [] OTHER -> "STREAM_ERROR"

\* C21: push and pull are two views of one event sequence: when the timeout
\* has not expired, a call that is over has delivered the decoded texts of the
\* arrived chunks and its outcome is the one the event sequence determines,
\* the same in both modes.
C21_SameView ==
  (/\ result.st # "pending" /\ FirstTerminal(events) # "none"
   /\ NoTimeout /\ SharedSequence) =>
    /\ Delivered = TextsOf(arrived)
    /\ OutcomeKind = LogKind

\* C22: in push mode, once onComplete or onError has been invoked, onChunk is
\* never invoked again.
C22_NoChunkAfterTerminal ==
  [][ (mode = "push" /\ (onCompleteLog # <<>> \/ onErrorLog # <<>>)) =>
        onChunkLog' = onChunkLog ]_vars

\* C23: whenever the consumer is suspended on the promise of the loop, still
\* unresolved, the chunk queue is empty and the stream is not marked done.
C23_SuspendsOnlyWhenIdle ==
  cstate = "waiting" => (chunkQueue = <<>> /\ ~done)

\* C23 witness: the consumer took a fragment, came back and is suspended again
\* on an open stream.
C23_Witness ==
  /\ cstate = "waiting" /\ resolveWait
  /\ yielded # <<>> /\ req = "open"

\* the generator is inside its await
Suspended == cstate \in {"waiting", "woken"}

\* C24: a chunk enqueued or a termination recorded while the consumer is
\* suspended resumes it, and a suspended consumer with a non-empty queue or a
\* finished stream does not stay suspended.
C24_NoLostWakeup ==
  /\ [][ (cstate = "waiting" /\ (chunkQueue' # chunkQueue \/ (done' /\ ~done))) =>
           cstate' = "woken" ]_vars
  /\ (Suspended /\ (chunkQueue # <<>> \/ done)) ~> ~Suspended

\* C24 witness: a chunk was enqueued while the consumer was suspended and its
\* promise is resolved.
C24_Witness ==
  /\ cstate = "woken" /\ chunkQueue # <<>> /\ ~done

\* C25: in pull mode an error once recorded is not replaced by the error of a
\* later event, so that the error raised at exhaustion is the first one.
C25_FirstErrorKept ==
  [][ (mode = "pull" /\ error # NoErr) => error' = error ]_vars

\* an explicit error value: a WindsurfError of kind ConnectionFailed or
\* StreamError with a message
IsExplicitError(e) ==
  /\ e.name = "WindsurfError"
  /\ e.code \in {"CONNECTION_FAILED", "STREAM_ERROR"}
  /\ e.message # <<>>

\* C26: on the connection-error, request-error and trailer-error paths the
\* value the call fails with and the value passed to onError are explicit
\* error values.
C26_ExplicitErrors ==
  /\ (result.st = "rejected" /\ sess # "none") => IsExplicitError(result.err)
  /\ \A i \in 1..Len(onErrorLog) : IsExplicitError(onErrorLog[i])

\* extractTextFromChunk has returned
Extracted == fn = "extractTextFromChunk" /\ ret # <<>>

\* s without the whitespace around it
Stripped(s) ==
  LET inner == { i \in 1..Len(s) : s[i] \notin WsChars }
      first == CHOOSE i \in inner : \A j \in inner : i <= j
      last == CHOOSE i \in inner : \A j \in inner : j <= i
  IN  IF inner = {} THEN <<>> ELSE SubSeq(s, first, last)

\* the chunk as a string, non-printable bytes replaced by spaces, without the
\* whitespace around it
Readable == Stripped([i \in 1..Len(arg) |-> IF arg[i] = "\t" THEN " " ELSE arg[i]])

HasMarker == \E i \in 1..Len(Readable) : Readable[i] = "*"

\* everything that follows the first asterisk
AfterMarker ==
  LET i == CHOOSE i \in 1..Len(Readable) :
             Readable[i] = "*" /\ \A j \in 1..(i - 1) : Readable[j] # "*"
  IN  SubSeq(Readable, i + 1, Len(Readable))

\* C27: when the sanitized chunk contains the asterisk marker, the decoder
\* returns the whole text that follows the marker, trimmed, the digit 0
\* included.
C27_WholeTextAfterMarker ==
  (Extracted /\ HasMarker) => ret[1] = Stripped(AfterMarker)

\* positions of s inside a run of two or more whitespace characters
Separators(s) ==
  { i \in 1..Len(s) :
      /\ s[i] \in WsChars
      /\ \/ (i > 1 /\ s[i - 1] \in WsChars)
         \/ (i < Len(s) /\ s[i + 1] \in WsChars) }

\* the segment of s that starts at position i
SegmentAt(s, i) ==
  LET j == CHOOSE j \in i..Len(s) :
             /\ \A k \in i..j : k \notin Separators(s)
             /\ (j = Len(s) \/ (j + 1) \in Separators(s))
  IN  SubSeq(s, i, j)

\* the positions where a segment of s starts
SegmentStarts(s) ==
  { i \in 1..Len(s) : i \notin Separators(s) /\ (i = 1 \/ (i - 1) \in Separators(s)) }

\* a segment without its leading whitespace, digits and asterisks, trimmed
WithoutLead(p) ==
  LET lead == WsChars \cup DigitChars \cup {"*"}
      rest == { i \in 1..Len(p) : p[i] \notin lead }
      first == CHOOSE i \in rest : \A j \in rest : i <= j
  IN  IF rest = {} THEN <<>> ELSE Stripped(SubSeq(p, first, Len(p)))

\* non-empty, no hyphen, not a hex/UUID-like token
Eligible(p) ==
  /\ p # <<>>
  /\ \A i \in 1..Len(p) : p[i] # "-"
  /\ \E i \in 1..Len(p) : p[i] \notin HexOrHyphenChars

====
